---- MODULE Spec2Model ----
(***************************************************************************)
(* Stack.GetStackEvents and Stack.PollStackEvents of package aws           *)
(* (pkg/aws stack API of cfctl), together with the remote CloudFormation   *)
(* service they talk to: the stack's event log, the paginated              *)
(* DescribeStackEvents call and the blocking WaitUntilStack*Complete       *)
(* primitive run by the waiter goroutine.                                  *)
(*                                                                         *)
(* An event is identified by its position in the server's log; its         *)
(* timestamp is log[e].  Timestamps are positive integers, 0 is the zero   *)
(* time.Time.                                                              *)
(*                                                                         *)
(* The last part models batchEncrypt and batchDecrypt of package cmd: the  *)
(* per-file goroutines, the result channel and the collecting loop.        *)
(***************************************************************************)
EXTENDS Integers, Sequences, FiniteSets, TLC

\* Bounds of the model.
MaxEvents == 2
MaxTime == 3
MaxPage == 1
MaxErrs == 2

VARIABLES
    waiterType,   \* argument of PollStackEvents
    log,          \* server: timestamps of the stack's events, in emission order
    now0,         \* value of time.Now() at the start of PollStackEvents
    timestamp,    \* PollStackEvents: newest timestamp printed so far
    pc,           \* PollStackEvents: "fetch", "select", "done", "panic"
    since,        \* GetStackEvents: its timestamp argument
    token,        \* GetStackEvents: input.NextToken is set
    snapshot,     \* server: size of the log when the pagination began
    delivered,    \* server: events already handed out in this pagination
    result,       \* GetStackEvents: events accumulated so far, in page order
    events,       \* value returned by the last GetStackEvents call
    printed,      \* events printed by utils.InfoPrint, in order
    fetchErrs,    \* errors returned by GetStackEvents so far, in order
    waiter,       \* waiter goroutine: "waiting", "sending", "done"
    waitErr,      \* value returned by WaitUntilStack*Complete
    logAtWait,    \* size of the log when WaitUntilStack*Complete returned
    ret,          \* error returned by the call ("none" until it returns)
    op,           \* the method of Stack that is called
    stackName,    \* its stack name argument
    tplLen,       \* len(tpl) of its template body argument
    url,          \* its template URL argument
    pages,        \* server: the pages of its stack listing, in order
    calls,        \* requests made to the client so far, in order
    valid,        \* CreateStack, UpdateStack: Capabilities of the validation output
    nextToken,    \* ListStacks, DescribeStacks: nextToken (0 is nil)
    stackSummary,          \* ListStacks, DescribeStacks: stackSummary / out so far
    out,          \* value returned by the call (its zero value until it returns)
    files,        \* batchEncrypt, batchDecrypt: len(files)
    worker,       \* the goroutine of each file: "start", "send", "done"
    unsent,       \* the values each goroutine has still to send on res
    res,          \* the result channel: the values buffered in it, in order
    received      \* the values the collecting loop received, in order

\* The arguments and the state of a direct call of a method of Stack.
apiVars == << op, stackName, tplLen, url, pages, calls, valid, nextToken, stackSummary, out >>

\* The state of the waiter goroutine and of the loop of PollStackEvents.
waitVars == << waiterType, now0, timestamp, printed, fetchErrs, waiter, waitErr,
               logAtWait >>

\* The state of a batch of the vault commands.
vaultVars == << files, worker, unsent, res, received >>

vars == << waiterType, log, now0, timestamp, pc, since, token, snapshot,
           delivered, result, events, printed, fetchErrs, waiter, waitErr,
           logAtWait, ret, op, stackName, tplLen, url, pages, calls, valid,
           nextToken, stackSummary, out, files, worker, unsent, res, received >>

StackWaiterTypeCreate == "create"
StackWaiterTypeUpdate == "update"
StackWaiterTypeDelete == "delete"

WaiterTypes == {StackWaiterTypeCreate, StackWaiterTypeUpdate, StackWaiterTypeDelete}

\* Errors DescribeStackEvents can return: two awserr.Error values (by Code())
\* and one error that does not implement awserr.Error.
AwsErrors == {"ValidationError", "Throttling"}
FetchErrors == AwsErrors \cup {"transport"}

\* Errors WaitUntilStack*Complete can return.
WaitResults == {"nil", "ResourceNotReady"}

Range(s) == {s[i] : i \in 1..Len(s)}

\* All orderings of the elements of a set of events.
Orderings(S) ==
    {s \in [1..Cardinality(S) -> S] : \A i, j \in 1..Cardinality(S) : i # j => s[i] # s[j]}

\* Pages the server may answer with when the events in rem are not handed out
\* yet and those in due must still be handed out: at most MaxPage events in any
\* order, at least one while some event is due.
Pages(rem, due) ==
    UNION {Orderings(S) : S \in {T \in SUBSET rem :
                                    /\ Cardinality(T) <= MaxPage
                                    /\ (due # {} => T \cap due # {})}}

\* The filter with the IsZero test the wrong way round.
SkippedWhenZero(ts, t) == ts = 0 \/ ts > t

\* GetStackEvents, the filter of one event: it is skipped when a timestamp is
\* given and timestamp.After(*se.Timestamp).
Skipped(ts, t) == ts # 0 /\ ts > t

\* GetStackEvents without its sort.Slice call: the page order is returned.
SortSliceUnsorted(s) == {s}

\* sort.Slice with less = Before over result: an unstable sort, events of equal
\* timestamp end up in any order.
SortSlice(s) ==
    {p \in Orderings(Range(s)) : \A i, j \in 1..Len(p) : i < j => ~(log[p[j]] < log[p[i]])}

\* An error check that returns every error of GetStackEvents.
FetchErrorOutcomeAlwaysFatal(wt, err) == "return"

\* PollStackEvents, what the loop does with an error of GetStackEvents:
\*   awsErr, ok := err.(awserr.Error)
\*   if (waiterType != StackWaiterTypeDelete || !ok) && awsErr.Code() != "ValidationError"
\* When the left operand is true and the assertion failed, awsErr is the nil
\* interface and awsErr.Code() panics.
FetchErrorOutcome(wt, err) ==
    LET ok == err \in AwsErrors IN
    IF wt # StackWaiterTypeDelete \/ ~ok
    THEN IF ~ok THEN "panic"
         ELSE IF err # "ValidationError" THEN "return" ELSE "continue"
    ELSE "continue"

\* The print test with !timestamp.After in place of timestamp.Before.
ShouldPrintAtOrAfter(ts, t) == ts <= t

\* PollStackEvents: an event is printed when timestamp.Before(*evnt.Timestamp).
ShouldPrint(ts, t) == ts < t

\* The tmpTime update with the comparison reversed.
NextTmpTimeReversed(tmp, t) == IF t < tmp THEN t ELSE tmp

\* PollStackEvents: tmpTime after a printed event of timestamp t.
NextTmpTime(tmp, t) == IF tmp < t THEN t ELSE tmp

\* PollStackEvents: the loop over the events of one batch; acc holds the
\* events printed and tmpTime.
RECURSIVE PrintLoop(_, _, _, _)
PrintLoop(evs, i, ts, acc) ==
    IF i > Len(evs) THEN acc
    ELSE IF ShouldPrint(ts, log[evs[i]])
         THEN PrintLoop(evs, i + 1, ts,
                        [out |-> Append(acc.out, evs[i]),
                         tmpTime |-> NextTmpTime(acc.tmpTime, log[evs[i]])])
         ELSE PrintLoop(evs, i + 1, ts, acc)

\* A select case that drops the value received from stop.
StopResultNil(err) == "nil"

\* PollStackEvents: the value returned when the stop channel delivers err.
StopResult(err) == err

Init ==
    /\ waiterType \in WaiterTypes
    /\ log = << >>
    /\ now0 \in 1..2
    /\ timestamp = now0
    /\ pc = "fetch"
    /\ since = now0
    /\ token = FALSE
    /\ snapshot = 0
    /\ delivered = {}
    /\ result = << >>
    /\ events = << >>
    /\ printed = << >>
    /\ fetchErrs = << >>
    /\ waiter = "waiting"
    /\ waitErr = "nil"
    /\ logAtWait = 0
    /\ ret = "none"
    /\ op = "PollStackEvents"
    /\ stackName = "demo"
    /\ tplLen = 0
    /\ url = ""
    /\ pages = << >>
    /\ calls = << >>
    /\ valid = {}
    /\ nextToken = 0
    /\ stackSummary = << >>
    /\ out = "none"
    /\ files = 0
    /\ worker = << >>
    /\ unsent = << >>
    /\ res = << >>
    /\ received = << >>

\* The server emits one more event of the stack; its clock does not run
\* backwards.
EmitEvent ==
    /\ pc \in {"fetch", "select"}
    /\ Len(log) < MaxEvents
    /\ \E t \in 1..MaxTime :
          /\ (log # << >> => t >= log[Len(log)])
          /\ log' = Append(log, t)
    /\ UNCHANGED << waiterType, now0, timestamp, pc, since, token, snapshot,
                    delivered, result, events, printed, fetchErrs, waiter,
                    waitErr, logAtWait, ret >>
    /\ UNCHANGED apiVars
    /\ UNCHANGED vaultVars

\* The waiter goroutine: WaitUntilStack*Complete returns, the goroutine
\* reaches stop <- err.
WaitReturns ==
    /\ waiter = "waiting"
    /\ waitErr' \in WaitResults
    /\ waiter' = "sending"
    /\ logAtWait' = Len(log)
    /\ UNCHANGED << waiterType, log, now0, timestamp, pc, since, token,
                    snapshot, delivered, result, events, printed, fetchErrs, ret >>
    /\ UNCHANGED apiVars
    /\ UNCHANGED vaultVars

\* One DescribeStackEvents call of GetStackEvents that succeeds and carries a
\* NextToken: the page is filtered and appended, the loop goes on.
FetchPage ==
    /\ pc = "fetch"
    /\ LET snap == IF token THEN snapshot ELSE Len(log)
           dlv == IF token THEN delivered ELSE {}
       IN \E pg \in Pages((1..Len(log)) \ dlv, (1..snap) \ dlv) :
             /\ (1..snap) \ (dlv \cup Range(pg)) # {}
             /\ snapshot' = snap
             /\ delivered' = dlv \cup Range(pg)
             /\ result' = result \o SelectSeq(pg, LAMBDA e : ~Skipped(since, log[e]))
             /\ token' = TRUE
    /\ UNCHANGED << waiterType, log, now0, timestamp, pc, since, events,
                    printed, fetchErrs, waiter, waitErr, logAtWait, ret >>
    /\ UNCHANGED apiVars
    /\ UNCHANGED vaultVars

\* The last DescribeStackEvents call of GetStackEvents (no NextToken): the
\* result is sorted and returned, and PollStackEvents prints the batch and
\* moves timestamp.
FetchLastPage ==
    /\ pc = "fetch"
    /\ LET snap == IF token THEN snapshot ELSE Len(log)
           dlv == IF token THEN delivered ELSE {}
       IN \E pg \in Pages((1..Len(log)) \ dlv, (1..snap) \ dlv) :
             /\ (1..snap) \ (dlv \cup Range(pg)) = {}
             /\ snapshot' = 0
             /\ delivered' = {}
             /\ result' = result \o SelectSeq(pg, LAMBDA e : ~Skipped(since, log[e]))
             /\ \E sorted \in SortSlice(result') :
                   LET done == PrintLoop(sorted, 1, timestamp,
                                         [out |-> << >>, tmpTime |-> timestamp])
                   IN /\ events' = sorted
                      /\ printed' = printed \o done.out
                      /\ timestamp' = IF Len(sorted) > 0 THEN done.tmpTime ELSE timestamp
    /\ pc' = "select"
    /\ token' = FALSE
    /\ UNCHANGED << waiterType, log, now0, since, fetchErrs, waiter,
                    waitErr, logAtWait, ret >>
    /\ UNCHANGED apiVars
    /\ UNCHANGED vaultVars

\* A DescribeStackEvents call fails: GetStackEvents returns nil and the error,
\* and PollStackEvents returns it, panics or goes on to the select.
FetchFails ==
    /\ pc = "fetch"
    /\ Len(fetchErrs) < MaxErrs
    /\ \E err \in FetchErrors :
          /\ fetchErrs' = Append(fetchErrs, err)
          /\ events' = << >>
          /\ result' = << >>
          /\ token' = FALSE
          /\ snapshot' = 0
          /\ delivered' = {}
          /\ LET outcome == FetchErrorOutcome(waiterType, err)
             IN /\ pc' = CASE outcome = "return" -> "done"
                           [] outcome = "panic" -> "panic"
                           [] OTHER -> "select"
                /\ ret' = IF outcome = "return" THEN err ELSE ret
    /\ UNCHANGED << waiterType, log, now0, timestamp, since, printed, waiter,
                    waitErr, logAtWait >>
    /\ UNCHANGED apiVars
    /\ UNCHANGED vaultVars

\* select, case err := <-stop: the waiter goroutine is blocked in its send.
SelectStop ==
    /\ pc = "select"
    /\ waiter = "sending"
    /\ waiter' = "done"
    /\ ret' = StopResult(waitErr)
    /\ pc' = "done"
    /\ UNCHANGED << waiterType, log, now0, timestamp, since, token, snapshot,
                    delivered, result, events, printed, fetchErrs, waitErr,
                    logAtWait >>
    /\ UNCHANGED apiVars
    /\ UNCHANGED vaultVars

\* A default case that ends the wait instead of sleeping.
SelectDefaultReturns ==
    /\ pc = "select"
    /\ waiter # "sending"
    /\ pc' = "done"
    /\ ret' = "nil"
    /\ UNCHANGED << waiterType, log, now0, timestamp, since, token, snapshot,
                    delivered, result, events, printed, fetchErrs, waiter,
                    waitErr, logAtWait >>
    /\ UNCHANGED apiVars
    /\ UNCHANGED vaultVars

\* select, default: nobody is sending; sleep a second and call GetStackEvents
\* again with the current timestamp.
SelectDefault ==
    /\ pc = "select"
    /\ waiter # "sending"
    /\ pc' = "fetch"
    /\ since' = timestamp
    /\ result' = << >>
    /\ UNCHANGED << waiterType, log, now0, timestamp, token, snapshot, delivered,
                    events, printed, fetchErrs, waiter, waitErr, logAtWait, ret >>
    /\ UNCHANGED apiVars
    /\ UNCHANGED vaultVars

Next ==
    \/ EmitEvent
    \/ WaitReturns
    \/ FetchPage
    \/ FetchLastPage
    \/ FetchFails
    \/ SelectStop
    \/ SelectDefault

Spec == Init /\ [][Next]_vars

\* The steps of the goroutine that runs PollStackEvents, fetch errors aside.
PollStep == FetchPage \/ FetchLastPage \/ SelectStop \/ SelectDefault

\* The calling goroutine keeps running and its requests are answered, and the
\* wait primitive returns in the end.
FairSpec == Spec /\ WF_vars(PollStep) /\ WF_vars(WaitReturns)

TypeOK ==
    /\ waiterType \in WaiterTypes
    /\ Len(log) <= MaxEvents
    /\ \A i \in 1..Len(log) : log[i] \in 1..MaxTime
    /\ pc \in {"fetch", "select", "done", "panic"}
    /\ waiter \in {"waiting", "sending", "done"}
    /\ ret \in {"none"} \cup WaitResults \cup FetchErrors

-----------------------------------------------------------------------------
(***************************************************************************)
(* Direct calls of the methods of Stack: GetStackEvents, ListStacks,       *)
(* DescribeStacks, ValidateTemplate, CreateStack, UpdateStack,             *)
(* DescribeStack, Exist, DetectStackDrift and DescribeStackResourceDrifts. *)
(* One behaviour is one call; calls records every request that reaches     *)
(* the client.                                                             *)
(***************************************************************************)

\* Bounds of the server's stack listing.
MaxListPages == 3
MaxPageLen == 2

ListOps == {"ListStacks", "DescribeStacks"}

\* A request to the client: the API called and the fields of its input.
\* reply is what the server answered ("ok" or the error), got the Capabilities
\* of a validation output.
NoRequest ==
    [api |-> "", token |-> 0, name |-> "", body |-> FALSE, url |-> FALSE,
     caps |-> {}, reply |-> "ok", got |-> {}]

\* The server's listing of sz[1] + ... + sz[n] stacks, numbered in server
\* order, cut into pages of sz[k] stacks.
RECURSIVE Offset(_, _)
Offset(sz, k) == IF k <= 1 THEN 0 ELSE Offset(sz, k - 1) + sz[k - 1]

Listing(sz) == [k \in 1..Len(sz) |-> [i \in 1..sz[k] |-> Offset(sz, k) + i]]

Listings == {Listing(sz) : sz \in UNION {[1..n -> 0..MaxPageLen] : n \in 1..MaxListPages}}

\* The server's NextToken of the page asked for with token tok: the number of
\* pages handed out, 0 (nil) on the last page.
PageToken(tok) == IF tok + 1 < Len(pages) THEN tok + 1 ELSE 0

RECURSIVE Concat(_, _)
Concat(pp, k) == IF k = 0 THEN << >> ELSE Concat(pp, k - 1) \o pp[k]

\* An aggregation that keeps only the page just read.
AggregateLastPage(sofar, page) == IF Len(page) > 0 THEN page ELSE sofar

\* ListStacks, DescribeStacks: append the page when it is not empty.
Aggregate(sofar, page) == IF Len(page) > 0 THEN sofar \o page ELSE sofar

\* An error return that drops what was accumulated.
ListErrorResultNil(sofar) == << >>

\* ListStacks, DescribeStacks: the value returned with the error of a page.
ListErrorResult(sofar) == sofar

\* An error return that hands out the pages read so far.
EventsErrorResultPartial(sofar) == sofar

\* GetStackEvents: the value returned with the error of a page is nil.
EventsErrorResult(sofar) == << >>

InitApiDefaults ==
    /\ waiterType = StackWaiterTypeCreate
    /\ log = << >>
    /\ now0 = 1
    /\ timestamp = 1
    /\ token = FALSE
    /\ snapshot = 0
    /\ delivered = {}
    /\ result = << >>
    /\ events = << >>
    /\ printed = << >>
    /\ fetchErrs = << >>
    /\ waiter = "waiting"
    /\ waitErr = "nil"
    /\ logAtWait = 0
    /\ ret = "none"
    /\ calls = << >>
    /\ valid = {}
    /\ nextToken = 0
    /\ stackSummary = << >>
    /\ files = 0
    /\ worker = << >>
    /\ unsent = << >>
    /\ res = << >>
    /\ received = << >>

\* GetStackEvents(stackName, timestamp) is called, for any timestamp and the
\* zero one.
InitGetStackEvents ==
    /\ InitApiDefaults
    /\ op = "GetStackEvents"
    /\ pc = "fetch"
    /\ since \in 0..MaxTime
    /\ out = << >>
    /\ stackName = "demo" /\ tplLen = 0 /\ url = "" /\ pages = << >>

\* ListStacks() or DescribeStacks() is called, for any paging of the listing.
InitList ==
    /\ InitApiDefaults
    /\ op \in ListOps
    /\ pc = "call"
    /\ pages \in Listings
    /\ since = 0
    /\ out = << >>
    /\ stackName = "" /\ tplLen = 0 /\ url = ""

\* The last DescribeStackEvents call of a direct GetStackEvents call: the
\* result is sorted and returned.
GetStackEventsReturns ==
    /\ op = "GetStackEvents"
    /\ pc = "fetch"
    /\ LET snap == IF token THEN snapshot ELSE Len(log)
           dlv == IF token THEN delivered ELSE {}
       IN \E pg \in Pages((1..Len(log)) \ dlv, (1..snap) \ dlv) :
             /\ (1..snap) \ (dlv \cup Range(pg)) = {}
             /\ snapshot' = snap
             /\ delivered' = dlv \cup Range(pg)
             /\ result' = result \o SelectSeq(pg, LAMBDA e : ~Skipped(since, log[e]))
             /\ events' \in SortSlice(result')
    /\ out' = events'
    /\ ret' = "nil"
    /\ pc' = "returned"
    /\ UNCHANGED << log, since, token >>
    /\ UNCHANGED waitVars
    /\ UNCHANGED vaultVars
    /\ UNCHANGED << op, stackName, tplLen, url, pages, calls, valid, nextToken, stackSummary >>

\* A DescribeStackEvents call of a direct GetStackEvents call fails.
GetStackEventsFails ==
    /\ op = "GetStackEvents"
    /\ pc = "fetch"
    /\ \E err \in FetchErrors : ret' = err
    /\ events' = EventsErrorResult(result)
    /\ out' = events'
    /\ pc' = "returned"
    /\ UNCHANGED << log, since, token, snapshot, delivered, result >>
    /\ UNCHANGED waitVars
    /\ UNCHANGED vaultVars
    /\ UNCHANGED << op, stackName, tplLen, url, pages, calls, valid, nextToken, stackSummary >>

\* One ListStacks / DescribeStacks request that succeeds: the page is
\* aggregated; without NextToken the loop breaks and the aggregate is returned.
ListPage ==
    /\ op \in ListOps
    /\ pc = "call"
    /\ calls' = Append(calls, [NoRequest EXCEPT !.api = op, !.token = nextToken])
    /\ stackSummary' = Aggregate(stackSummary, pages[nextToken + 1])
    /\ IF PageToken(nextToken) = 0
       THEN /\ out' = stackSummary'
            /\ ret' = "nil"
            /\ pc' = "returned"
            /\ UNCHANGED nextToken
       ELSE /\ nextToken' = PageToken(nextToken)
            /\ UNCHANGED << out, ret, pc >>
    /\ UNCHANGED << log, since, token, snapshot, delivered, result, events >>
    /\ UNCHANGED waitVars
    /\ UNCHANGED vaultVars
    /\ UNCHANGED << op, stackName, tplLen, url, pages, valid >>

\* One ListStacks / DescribeStacks request that fails: what was aggregated is
\* returned with the error.
ListFails ==
    /\ op \in ListOps
    /\ pc = "call"
    /\ \E err \in FetchErrors :
          /\ calls' = Append(calls, [NoRequest EXCEPT !.api = op, !.token = nextToken,
                                                       !.reply = err])
          /\ ret' = err
    /\ out' = ListErrorResult(stackSummary)
    /\ pc' = "returned"
    /\ UNCHANGED << log, since, token, snapshot, delivered, result, events >>
    /\ UNCHANGED waitVars
    /\ UNCHANGED vaultVars
    /\ UNCHANGED << op, stackName, tplLen, url, pages, valid, nextToken, stackSummary >>

maxTemplateLength == 51200

TemplateOps == {"ValidateTemplate", "CreateStack", "UpdateStack"}

NameOps == {"DescribeStack", "Exist", "DetectStackDrift", "DescribeStackResourceDrifts"}

\* Arguments the calls are tried with.
TemplateLengths == {0, 1, maxTemplateLength, maxTemplateLength + 1}
Urls == {"", "https://s3.amazonaws.com/bucket/template.yaml"}
StackNames == {"", "demo"}

\* Capabilities a validation output can carry.
CapabilitySets ==
    {{}, {"CAPABILITY_IAM"}, {"CAPABILITY_IAM", "CAPABILITY_NAMED_IAM"}}

\* The errors ValidateTemplate makes itself with errors.New.
LocalTemplateErrors == {"MissingTemplate", "TemplateTooLarge"}

\* ValidateTemplate: neither a body nor a URL is given.
TemplateMissing(n, u) == n = 0 /\ u = ""

\* A size check that also refuses a body of exactly the maximum.
TemplateTooLongAtMax(n) == n > 0 /\ n >= maxTemplateLength

\* ValidateTemplate: a body is given and len(tpl) > maxTemplateLength.
TemplateTooLong(n) == n > 0 /\ n > maxTemplateLength

\* A body test that gives way to a URL.
ValidateUsesBodyUnlessUrl(n, u) == n > 0 /\ u = ""

\* ValidateTemplate: the input carries TemplateBody when len(tpl) > 0.
ValidateUsesBody(n, u) == n > 0

\* ValidateTemplate: the input carries TemplateURL when only a URL is given.
ValidateUsesUrl(n, u) == n = 0 /\ u # ""

\* CreateStack, UpdateStack: SetTemplateBody when len(tpl) > 0, else
\* SetTemplateURL.
CreateUsesBody(n) == n > 0

\* A create input that leaves the capabilities out.
CreateCapabilitiesNone(v) == {}

\* CreateStack, UpdateStack: SetCapabilities(valid.Capabilities).
CreateCapabilities(v) == v

\* A name check that lets every name through.
StackNameMissingNever(n) == FALSE

\* DescribeStack, DetectStackDrift, DescribeStackResourceDrifts: len(stackName)
\* is 0.
StackNameMissing(n) == n = ""

\* What the server can answer to the DescribeStacks request of DescribeStack:
\* an error, one stack, one nil record, or no record at all.
DescribeReplies == FetchErrors \cup {"stack", "nilrecord", "empty"}

\* DescribeStack after the request: nil and the error; out.Stacks[0] and nil;
\* and out.Stacks[0] of an empty slice panics (index out of range).
DescribeStackResult(reply) ==
    IF reply \in FetchErrors THEN [val |-> "nil", err |-> reply, panics |-> FALSE]
    ELSE IF reply = "empty" THEN [val |-> "nil", err |-> "nil", panics |-> TRUE]
    ELSE IF reply = "nilrecord" THEN [val |-> "nil", err |-> "nil", panics |-> FALSE]
    ELSE [val |-> "stack", err |-> "nil", panics |-> FALSE]

\* Exist: false when err != nil || stacks == nil, true otherwise.
ExistResult(val, err) == IF err # "nil" \/ val = "nil" THEN "false" ELSE "true"

\* ValidateTemplate, CreateStack or UpdateStack is called, for any body length
\* and URL.
InitTemplate ==
    /\ InitApiDefaults
    /\ op \in TemplateOps
    /\ pc = "call"
    /\ tplLen \in TemplateLengths
    /\ url \in Urls
    /\ since = 0
    /\ out = IF op = "ValidateTemplate" THEN {} ELSE "nil"
    /\ stackName = "demo" /\ pages = << >>

\* DescribeStack, Exist, DetectStackDrift or DescribeStackResourceDrifts is
\* called, with a stack name or without.
InitName ==
    /\ InitApiDefaults
    /\ op \in NameOps
    /\ pc = "call"
    /\ stackName \in StackNames
    /\ since = 0
    /\ out = IF op = "Exist" THEN "false" ELSE "nil"
    /\ tplLen = 0 /\ url = "" /\ pages = << >>

InitApi == InitGetStackEvents \/ InitList \/ InitTemplate \/ InitName

fetchVars == << log, since, token, snapshot, delivered, result, events >>

\* ValidateTemplate returns its own error: no template at all, or a body that
\* is too long.  CreateStack and UpdateStack return it as it is.
ValidateTemplateRejects ==
    /\ op \in TemplateOps
    /\ pc = "call"
    /\ TemplateMissing(tplLen, url) \/ TemplateTooLong(tplLen)
    /\ ret' = IF TemplateMissing(tplLen, url) THEN "MissingTemplate" ELSE "TemplateTooLarge"
    /\ UNCHANGED out
    /\ pc' = "returned"
    /\ UNCHANGED fetchVars
    /\ UNCHANGED waitVars
    /\ UNCHANGED vaultVars
    /\ UNCHANGED << op, stackName, tplLen, url, pages, calls, valid, nextToken, stackSummary >>

\* The ValidateTemplate request of the client, with the input ValidateTemplate
\* builds, answered with reply and the capabilities got.
ValidateRequest(reply, got) ==
    [NoRequest EXCEPT !.api = "ValidateTemplate",
                      !.body = ValidateUsesBody(tplLen, url),
                      !.url = ValidateUsesUrl(tplLen, url),
                      !.reply = reply, !.got = got]

\* s.Client.ValidateTemplate(input) fails: ValidateTemplate, and with it
\* CreateStack and UpdateStack, return the error.
ValidateTemplateFails ==
    /\ op \in TemplateOps
    /\ pc = "call"
    /\ ~(TemplateMissing(tplLen, url) \/ TemplateTooLong(tplLen))
    /\ \E err \in FetchErrors :
          /\ calls' = Append(calls, ValidateRequest(err, {}))
          /\ ret' = err
    /\ UNCHANGED out
    /\ pc' = "returned"
    /\ UNCHANGED fetchVars
    /\ UNCHANGED waitVars
    /\ UNCHANGED vaultVars
    /\ UNCHANGED << op, stackName, tplLen, url, pages, valid, nextToken, stackSummary >>

\* s.Client.ValidateTemplate(input) succeeds: ValidateTemplate returns the
\* output; CreateStack and UpdateStack go on with its Capabilities.
ValidateTemplateSucceeds ==
    /\ op \in TemplateOps
    /\ pc = "call"
    /\ ~(TemplateMissing(tplLen, url) \/ TemplateTooLong(tplLen))
    /\ \E got \in CapabilitySets :
          /\ calls' = Append(calls, ValidateRequest("ok", got))
          /\ IF op = "ValidateTemplate"
             THEN /\ out' = got
                  /\ ret' = "nil"
                  /\ pc' = "returned"
                  /\ UNCHANGED valid
             ELSE /\ valid' = got
                  /\ pc' = "validated"
                  /\ UNCHANGED << out, ret >>
    /\ UNCHANGED fetchVars
    /\ UNCHANGED waitVars
    /\ UNCHANGED vaultVars
    /\ UNCHANGED << op, stackName, tplLen, url, pages, nextToken, stackSummary >>

\* s.Client.CreateStack(input) / s.Client.UpdateStack(input), after the
\* validation: its output and error are returned.
CreateOrUpdate ==
    /\ op \in {"CreateStack", "UpdateStack"}
    /\ pc = "validated"
    /\ \E reply \in {"ok"} \cup FetchErrors :
          /\ calls' = Append(calls, [NoRequest EXCEPT !.api = op,
                                                       !.name = stackName,
                                                       !.caps = CreateCapabilities(valid),
                                                       !.body = CreateUsesBody(tplLen),
                                                       !.url = ~CreateUsesBody(tplLen),
                                                       !.reply = reply])
          /\ ret' = IF reply = "ok" THEN "nil" ELSE reply
          /\ out' = IF reply = "ok" THEN "StackId" ELSE "nil"
    /\ pc' = "returned"
    /\ UNCHANGED fetchVars
    /\ UNCHANGED waitVars
    /\ UNCHANGED vaultVars
    /\ UNCHANGED << op, stackName, tplLen, url, pages, valid, nextToken, stackSummary >>

\* The stack name is missing: DescribeStack, DetectStackDrift and
\* DescribeStackResourceDrifts return their own error, and Exist, which gets
\* that of DescribeStack, returns false.
StackNameRejected ==
    /\ op \in NameOps
    /\ pc = "call"
    /\ StackNameMissing(stackName)
    /\ IF op = "Exist"
       THEN /\ out' = ExistResult("nil", "MissingStackName")
            /\ ret' = "nil"
       ELSE /\ out' = "nil"
            /\ ret' = "MissingStackName"
    /\ pc' = "returned"
    /\ UNCHANGED fetchVars
    /\ UNCHANGED waitVars
    /\ UNCHANGED vaultVars
    /\ UNCHANGED << op, stackName, tplLen, url, pages, calls, valid, nextToken, stackSummary >>

\* DescribeStack, called directly or by Exist, makes its DescribeStacks request.
DescribeStackRequest ==
    /\ op \in {"DescribeStack", "Exist"}
    /\ pc = "call"
    /\ ~StackNameMissing(stackName)
    /\ \E reply \in DescribeReplies :
          LET r == DescribeStackResult(reply)
          IN /\ calls' = Append(calls, [NoRequest EXCEPT !.api = "DescribeStacks",
                                                          !.name = stackName,
                                                          !.reply = reply])
             /\ IF r.panics
                THEN /\ pc' = "panic"
                     /\ UNCHANGED << out, ret >>
                ELSE /\ pc' = "returned"
                     /\ out' = IF op = "Exist" THEN ExistResult(r.val, r.err) ELSE r.val
                     /\ ret' = IF op = "Exist" THEN "nil" ELSE r.err
    /\ UNCHANGED fetchVars
    /\ UNCHANGED waitVars
    /\ UNCHANGED vaultVars
    /\ UNCHANGED << op, stackName, tplLen, url, pages, valid, nextToken, stackSummary >>

\* DetectStackDrift and DescribeStackResourceDrifts make their request and
\* return its result or its error.
DriftRequest ==
    /\ op \in {"DetectStackDrift", "DescribeStackResourceDrifts"}
    /\ pc = "call"
    /\ ~StackNameMissing(stackName)
    /\ \E reply \in {"ok"} \cup FetchErrors :
          /\ calls' = Append(calls, [NoRequest EXCEPT !.api = op,
                                                       !.name = stackName,
                                                       !.reply = reply])
          /\ ret' = IF reply = "ok" THEN "nil" ELSE reply
          /\ out' = IF reply = "ok" THEN "drift" ELSE "nil"
    /\ pc' = "returned"
    /\ UNCHANGED fetchVars
    /\ UNCHANGED waitVars
    /\ UNCHANGED vaultVars
    /\ UNCHANGED << op, stackName, tplLen, url, pages, valid, nextToken, stackSummary >>

NextApi ==
    \/ EmitEvent
    \/ FetchPage
    \/ GetStackEventsReturns
    \/ GetStackEventsFails
    \/ ListPage
    \/ ListFails
    \/ ValidateTemplateRejects
    \/ ValidateTemplateFails
    \/ ValidateTemplateSucceeds
    \/ CreateOrUpdate
    \/ StackNameRejected
    \/ DescribeStackRequest
    \/ DriftRequest

SpecApi == InitApi /\ [][NextApi]_vars

-----------------------------------------------------------------------------
(***************************************************************************)
(* batchEncrypt and batchDecrypt of package cmd, from the creation of the  *)
(* result channel on: one goroutine per file sends on the channel, the     *)
(* loop of the function receives len(files) values from it.  A value in    *)
(* the channel is recorded with the file of the goroutine that sent it;    *)
(* err is "nil" or the step that failed.                                   *)
(***************************************************************************)

\* Bound of the model: the largest number of files of a batch.
MaxFiles == 2

\* Capacity of the result channel: make(chan error, 10).
resultCap == 10

VaultOps == {"batchEncrypt", "batchDecrypt"}

\* What can happen to one file: ioutil.ReadFile fails; vault.Encrypt fails,
\* or no password decrypts the file to a non-empty output; ioutil.WriteFile
\* fails; or all three succeed.
Outcomes == {"read", "crypto", "write", "ok"}

\* The values the goroutine of a file sends on res, in order.  The branches
\* of a read failure and of an encryption failure return after their send;
\* the branch of a write failure, and in batchDecrypt the else branch of a
\* failed decryption, do not, and fall through to res <- nil.
Results(o, outcome) ==
    IF outcome = "read" THEN << "read" >>
    ELSE IF outcome = "crypto"
         THEN IF o = "batchEncrypt" THEN << "crypto" >> ELSE << "crypto", "nil" >>
    ELSE IF outcome = "write" THEN << "write", "nil" >>
    ELSE << "nil" >>

\* batchEncrypt or batchDecrypt has got its passwords, made the channel and
\* started one goroutine for each of its files (the command takes at least
\* one file).
InitVault ==
    /\ op \in VaultOps
    /\ files \in 1..MaxFiles
    /\ worker = [i \in 1..files |-> "start"]
    /\ unsent = [i \in 1..files |-> << >>]
    /\ res = << >>
    /\ received = << >>
    /\ pc = "collect"
    /\ ret = "none"
    /\ waiterType = StackWaiterTypeCreate
    /\ log = << >>
    /\ now0 = 1
    /\ timestamp = 1
    /\ since = 0
    /\ token = FALSE
    /\ snapshot = 0
    /\ delivered = {}
    /\ result = << >>
    /\ events = << >>
    /\ printed = << >>
    /\ fetchErrs = << >>
    /\ waiter = "waiting"
    /\ waitErr = "nil"
    /\ logAtWait = 0
    /\ stackName = ""
    /\ tplLen = 0
    /\ url = ""
    /\ pages = << >>
    /\ calls = << >>
    /\ valid = {}
    /\ nextToken = 0
    /\ stackSummary = << >>
    /\ out = "none"

\* The variables of the stack API, which a batch leaves alone.
stackVars == << waiterType, log, now0, timestamp, since, token, snapshot,
                delivered, result, events, printed, fetchErrs, waiter, waitErr,
                logAtWait, op, stackName, tplLen, url, pages, calls, valid,
                nextToken, stackSummary, out >>

\* The goroutine of a file reads, encrypts or decrypts, and writes the file:
\* the outcome fixes the sends it goes on to make.
WorkerRuns ==
    \E i \in 1..files : \E outcome \in Outcomes :
        /\ worker[i] = "start"
        /\ worker' = [worker EXCEPT ![i] = "send"]
        /\ unsent' = [unsent EXCEPT ![i] = Results(op, outcome)]
        /\ UNCHANGED << files, res, received, pc, ret >>
        /\ UNCHANGED stackVars

\* A goroutine makes its next send, res <- err or res <- nil, which blocks
\* while the channel is full; after its last send it ends.
WorkerSends ==
    \E i \in 1..files :
        /\ worker[i] = "send"
        /\ Len(res) < resultCap
        /\ res' = Append(res, [file |-> i, err |-> Head(unsent[i])])
        /\ unsent' = [unsent EXCEPT ![i] = Tail(unsent[i])]
        /\ worker' = [worker EXCEPT ![i] = IF Len(unsent[i]) = 1 THEN "done" ELSE "send"]
        /\ UNCHANGED << files, received, pc, ret >>
        /\ UNCHANGED stackVars

\* One turn of the collecting loop: err := <-result, and utils.Print of a
\* non-nil err succeeds.  After len(files) turns the function returns nil.
Receive ==
    /\ pc = "collect"
    /\ Len(received) < files
    /\ res # << >>
    /\ res' = Tail(res)
    /\ received' = Append(received, Head(res))
    /\ IF Len(received) + 1 = files
          THEN pc' = "returned" /\ ret' = "nil"
          ELSE UNCHANGED << pc, ret >>
    /\ UNCHANGED << files, worker, unsent >>
    /\ UNCHANGED stackVars

\* One turn of the collecting loop in which utils.Print of the received
\* error fails: the function returns the error of Print at once.
ReceivePrintFails ==
    /\ pc = "collect"
    /\ Len(received) < files
    /\ res # << >>
    /\ Head(res).err # "nil"
    /\ res' = Tail(res)
    /\ received' = Append(received, Head(res))
    /\ pc' = "returned"
    /\ ret' = "PrintError"
    /\ UNCHANGED << files, worker, unsent >>
    /\ UNCHANGED stackVars

NextVault ==
    \/ WorkerRuns
    \/ WorkerSends
    \/ Receive
    \/ ReceivePrintFails

SpecVault == InitVault /\ [][NextVault]_vars

-----------------------------------------------------------------------------
\* Helpers of the properties.

Max(S) == CHOOSE m \in S : \A x \in S : x <= m

PrintedTimes == {log[printed[i]] : i \in 1..Len(printed)}

OnlyValidationErrors == \A i \in 1..Len(fetchErrs) : fetchErrs[i] = "ValidationError"

ReturnedByStop == pc = "done" /\ waiter = "done"

PageOrderUnsorted == \E i, j \in 1..Len(result) : i < j /\ log[result[j]] < log[result[i]]

-----------------------------------------------------------------------------
\* C1: with waiterType = delete, as long as every error of GetStackEvents is
\* of the ValidationError class, PollStackEvents neither panics nor returns
\* a fetch error: when it has returned, it returned through the stop channel
\* with the result of WaitUntilStackDeleteComplete (nil when that was nil).
DeleteTolerance ==
    (waiterType = StackWaiterTypeDelete /\ OnlyValidationErrors) =>
        /\ pc # "panic"
        /\ pc = "done" => (waiter = "done" /\ ret = waitErr)

\* A delete wait that met two ValidationErrors and then returned nil.
DeleteToleranceWitness ==
    /\ waiterType = StackWaiterTypeDelete
    /\ Len(fetchErrs) >= 2
    /\ OnlyValidationErrors
    /\ ReturnedByStop
    /\ waitErr = "nil"
    /\ ret = "nil"

\* C2: with waiterType create or update, the first error of GetStackEvents,
\* whatever its class, ends PollStackEvents at once: no further fetch is
\* made and the value returned is that error.
CreateUpdateFetchErrorFatal ==
    (waiterType \in {StackWaiterTypeCreate, StackWaiterTypeUpdate} /\ fetchErrs # << >>) =>
        /\ pc = "done"
        /\ Len(fetchErrs) = 1
        /\ ret = fetchErrs[1]

\* C3: with waiterType = delete, an error of GetStackEvents that is not of
\* the ValidationError class ends PollStackEvents at once with that error.
DeleteOtherFetchErrorFatal ==
    (waiterType = StackWaiterTypeDelete /\ ~OnlyValidationErrors) =>
        /\ pc = "done"
        /\ fetchErrs[Len(fetchErrs)] # "ValidationError"
        /\ ret = fetchErrs[Len(fetchErrs)]

\* C4: when PollStackEvents has returned through the stop channel after a run
\* without fetch errors, every event emitted before WaitUntilStack*Complete
\* returned whose timestamp is after the initial timestamp has been printed.
LastBatchNotLost ==
    (ReturnedByStop /\ fetchErrs = << >>) =>
        \A e \in 1..logAtWait : log[e] > now0 => e \in Range(printed)

\* C5: when PollStackEvents has returned through the stop channel, its
\* result is the value WaitUntilStack*Complete returned.
ReturnsWaiterResult == ReturnedByStop => ret = waitErr

\* A wait that printed events, whose last fetch brought nothing, and that
\* returned the error of the wait primitive.
ReturnsWaiterResultWitness ==
    /\ ReturnedByStop
    /\ printed # << >>
    /\ events = << >>
    /\ ret = "ResourceNotReady"

\* C6: the events printed during one PollStackEvents call are in
\* non-decreasing order of timestamp.
PrintedNonDecreasing ==
    \A i, j \in 1..Len(printed) : i < j => log[printed[i]] <= log[printed[j]]

\* Two events of different timestamps printed from a fetch whose pages came
\* newest first.
PrintedNonDecreasingWitness ==
    /\ Len(printed) >= 2
    /\ log[printed[1]] < log[printed[Len(printed)]]
    /\ PageOrderUnsorted
    /\ Range(result) \subseteq Range(printed)

\* C7: no event is printed twice during one PollStackEvents call.
NoEventPrintedTwice ==
    \A i, j \in 1..Len(printed) : i < j => printed[i] # printed[j]

\* An event printed in an earlier iteration is returned again by the fetch
\* of a later one (its timestamp is the timestamp that fetch was given).
NoEventPrintedTwiceWitness ==
    /\ pc = "select"
    /\ \E i \in 1..Len(events) :
          /\ events[i] \in Range(printed)
          /\ log[events[i]] = since

\* C8: timestamp never moves backwards, and it is always the maximum of the
\* initial time.Now() and the timestamps of the events printed so far.
WatermarkNeverRegresses ==
    /\ [](timestamp = Max({now0} \cup PrintedTimes))
    /\ [][timestamp' >= timestamp]_vars

\* The watermark has advanced, and an iteration with a tolerated fetch error
\* has left it where it was.
WatermarkNeverRegressesWitness ==
    /\ pc = "select"
    /\ fetchErrs # << >>
    /\ events = << >>
    /\ result = << >>
    /\ printed # << >>
    /\ timestamp > now0

\* C9: no event returned by GetStackEvents for a non-zero timestamp has a
\* timestamp at or before it.
FetchDiscardsAtOrBefore ==
    since # 0 => \A i \in 1..Len(events) : log[events[i]] > since

\* C10 as stated: the events returned by GetStackEvents are strictly
\* ascending in timestamp.
FetchStrictlyAscending ==
    \A i, j \in 1..Len(events) : i < j => log[events[i]] < log[events[j]]

\* C10: the events returned by GetStackEvents are in ascending order of
\* timestamp, events of equal timestamp next to each other.
FetchAscending ==
    \A i, j \in 1..Len(events) : i < j => log[events[i]] <= log[events[j]]

\* A fetch of more than one page whose pages came newest first.
FetchAscendingWitness ==
    /\ pc = "select"
    /\ Len(events) > MaxPage
    /\ Range(events) = Range(result)
    /\ PageOrderUnsorted

-----------------------------------------------------------------------------
\* Helpers of the properties of the direct calls.

Returned == pc = "returned"

Finished == pc \in {"returned", "panic"}

IsSeqOfAll(sq, S) == Range(sq) = S /\ Len(sq) = Cardinality(S)

\* C11: GetStackEvents called with the zero timestamp returns every event the
\* server handed out on the pages of the call, each once, and these are at
\* least all events the stack had when the call began.
ZeroTimestampPassthrough ==
    (op = "GetStackEvents" /\ since = 0 /\ Returned /\ ret = "nil") =>
        /\ IsSeqOfAll(events, delivered)
        /\ (1..snapshot) \subseteq Range(events)

\* A call with the zero timestamp that took more than one page and returned
\* several events.
ZeroTimestampPassthroughWitness ==
    /\ op = "GetStackEvents"
    /\ since = 0
    /\ Returned
    /\ token
    /\ Len(events) >= 2

\* C12: a body of exactly maxTemplateLength bytes passes the size check and
\* is sent to the validation endpoint; a longer body is refused with an error
\* and no request is made at all.
TemplateSizeBoundary ==
    (op \in TemplateOps /\ pc # "call") =>
        /\ tplLen = maxTemplateLength =>
              /\ calls # << >>
              /\ calls[1].api = "ValidateTemplate"
              /\ calls[1].body
        /\ tplLen > maxTemplateLength =>
              /\ calls = << >>
              /\ Returned
              /\ ret = "TemplateTooLarge"

\* CreateStack with a body one byte too long (and a URL at hand) has returned.
TemplateSizeBoundaryWitness ==
    /\ op = "CreateStack"
    /\ tplLen = maxTemplateLength + 1
    /\ url # ""
    /\ Returned
    /\ calls = << >>

\* C13: without body and URL the three calls fail before any request; with
\* both, every request carries the body and none the URL.
ExactlyOneTemplateSource ==
    op \in TemplateOps =>
        /\ (tplLen = 0 /\ url = "" /\ pc # "call") =>
              (Returned /\ ret = "MissingTemplate" /\ calls = << >>)
        /\ (tplLen > 0 /\ url # "") =>
              \A i \in 1..Len(calls) : calls[i].body /\ ~calls[i].url

\* UpdateStack given a body and a URL has made both its requests.
ExactlyOneTemplateSourceWitness ==
    /\ op = "UpdateStack"
    /\ tplLen > 0
    /\ url # ""
    /\ Len(calls) = 2
    /\ calls[2].api = "UpdateStack"

\* C14: a create or update request is made only as the second request, after
\* a validation request that succeeded, and with the capabilities that
\* validation returned; when the validation failed there is no other request
\* and its error is what is returned.
ValidateBeforeCreate ==
    op \in {"CreateStack", "UpdateStack"} =>
        /\ \A i \in 1..Len(calls) :
              calls[i].api = op =>
                  /\ i = 2
                  /\ calls[1].api = "ValidateTemplate"
                  /\ calls[1].reply = "ok"
                  /\ calls[2].caps = calls[1].got
        /\ (calls # << >> /\ calls[1].reply # "ok") =>
              (Len(calls) = 1 /\ Returned /\ ret = calls[1].reply)
        /\ (Returned /\ calls = << >>) => ret \in LocalTemplateErrors

\* CreateStack was sent with the capability the validation had returned.
ValidateBeforeCreateWitness ==
    /\ op = "CreateStack"
    /\ Returned
    /\ ret = "nil"
    /\ Len(calls) = 2
    /\ calls[2].caps = {"CAPABILITY_IAM"}

\* C15: request i of ListStacks / DescribeStacks carries the token of page
\* i - 1 (none for the first), no request is made beyond the last page, and
\* a call that returns without error returns all pages concatenated in order
\* after exactly one request per page.
PaginationAggregation ==
    op \in ListOps =>
        /\ Len(calls) <= Len(pages)
        /\ \A i \in 1..Len(calls) : calls[i].token = i - 1
        /\ (Returned /\ ret = "nil") =>
              /\ out = Concat(pages, Len(pages))
              /\ Len(calls) = Len(pages)

\* Pages of 2, 2 and 1 stacks gave one result of 5.
PaginationAggregationWitness ==
    /\ op = "ListStacks"
    /\ pages = << <<1, 2>>, <<3, 4>>, <<5>> >>
    /\ Returned
    /\ out = <<1, 2, 3, 4, 5>>

\* C16: Exist always returns a boolean and never fails: true when the
\* describe request succeeded with a stack record, false in every other case.
ExistIsTotal ==
    (op = "Exist" /\ pc # "call") =>
        /\ Returned
        /\ ret = "nil"
        /\ out \in {"true", "false"}
        /\ out = "true" <=> (calls # << >> /\ calls[1].reply = "stack")

\* C17: with an empty stack name DescribeStack, DetectStackDrift and
\* DescribeStackResourceDrifts return an error and make no request.
MissingNameCaught ==
    (op \in {"DescribeStack", "DetectStackDrift", "DescribeStackResourceDrifts"}
        /\ stackName = "") =>
        /\ calls = << >>
        /\ pc # "call" => (Returned /\ ret = "MissingStackName")

\* DetectStackDrift without a stack name has returned.
MissingNameCaughtWitness ==
    /\ op = "DetectStackDrift"
    /\ stackName = ""
    /\ Returned
    /\ ret = "MissingStackName"

\* C18: once PollStackEvents has returned, the waiter goroutine is not
\* blocked in its send on stop.
WaiterNeverLeftBlocked == pc = "done" => waiter # "sending"

\* C19: PollStackEvents returns only through the stop channel, with the
\* result of the wait primitive, or with a fetch error of its error check;
\* and when the wait primitive returns in the end, PollStackEvents ends.
TerminationByWaiter ==
    /\ [](pc = "done" =>
             \/ waiter = "done" /\ ret = waitErr
             \/ /\ fetchErrs # << >>
                /\ ret = fetchErrs[Len(fetchErrs)]
                /\ FetchErrorOutcome(waiterType, ret) = "return")
    /\ <>(pc \in {"done", "panic"})

\* The wait went on through printed events and a tolerated fetch error and
\* ended with the stop signal.
TerminationByWaiterWitness ==
    /\ ReturnedByStop
    /\ printed # << >>
    /\ fetchErrs # << >>
    /\ Len(log) = Len(printed)

\* C20: when a page request fails, ListStacks and DescribeStacks return the
\* error with the pages read before it, GetStackEvents returns it with no
\* event, and the call is over: nothing more is requested.
FailedPageResult ==
    (Returned /\ ret # "nil") =>
        /\ op \in ListOps =>
              /\ ret = calls[Len(calls)].reply
              /\ out = Concat(pages, Len(calls) - 1)
        /\ op = "GetStackEvents" => (events = << >> /\ out = << >>)
        /\ op \in ListOps \cup {"GetStackEvents"} => ~ENABLED NextApi

\* DescribeStacks failed on its third page and returned the first two.
FailedPageResultWitness ==
    /\ op = "DescribeStacks"
    /\ Returned
    /\ ret # "nil"
    /\ Len(calls) = 3
    /\ Len(out) >= 3

-----------------------------------------------------------------------------
\* Helpers of the properties of the vault batches.

\* The values the goroutine of file i has sent so far.
SentBy(i) ==
    Cardinality({k \in 1..Len(res) : res[k].file = i})
    + Cardinality({k \in 1..Len(received) : received[k].file = i})

\* The values of file i the collecting loop has received.
ReceivedOf(i) == {k \in 1..Len(received) : received[k].file = i}

\* C21: in batchEncrypt and batchDecrypt the goroutine of every file sends
\* exactly one result whatever the outcome of its file, and when the loop
\* has made its len(files) receives and the batch returns, it has received
\* exactly one result of every file: no goroutine has a send left to make
\* and no result is left in the channel.
OneResultPerFile ==
    /\ \A i \in 1..files :
          worker[i] # "start" => SentBy(i) + Len(unsent[i]) = 1
    /\ (pc = "returned" /\ ret = "nil") =>
          /\ \A i \in 1..files : worker[i] = "done" /\ Cardinality(ReceivedOf(i)) = 1
          /\ res = << >>
====
